---- MODULE Spec2Model ----
(***************************************************************************)
(* The torchgeo datamodules: NonGeoDataModule (datamodules/geo.py) and its *)
(* two subclasses COWCCountingDataModule (datamodules/cowc.py) and         *)
(* So2SatDataModule (datamodules/so2sat.py).                               *)
(*                                                                         *)
(* One datamodule object is modelled.  Its attributes are the variables,   *)
(* one action per method.  Every call leaves its outcome in `call`: the    *)
(* method, its argument, the exception it raised (None when it returned),  *)
(* the value it returned and what it handed to its collaborators.          *)
(*                                                                         *)
(* Optional[T] is a sequence: None is <<>>, a value v is <<v>>.            *)
(***************************************************************************)
EXTENDS Integers, Sequences, FiniteSets, TLC

VARIABLES
    cls,                \* the class being instantiated
    pc,                 \* "new" before __init__, then "ready" or "failed"
    args,               \* constructor arguments and subclass configuration
    provider_len,       \* len() of the provider's nominal "train" / "test" split
    dataset_class, batch_size, num_workers, kwargs,
    train_dataset, val_dataset, test_dataset, predict_dataset,
    train_batch_size, val_batch_size, test_batch_size, predict_batch_size,
    aug, train_aug, val_aug, test_aug, predict_aug,
    call                \* outcome of the last method call

datasets    == <<train_dataset, val_dataset, test_dataset, predict_dataset>>
batch_sizes == <<train_batch_size, val_batch_size, test_batch_size, predict_batch_size>>
augs        == <<aug, train_aug, val_aug, test_aug, predict_aug>>
settings    == <<dataset_class, batch_size, num_workers, kwargs>>
env         == <<cls, args, provider_len>>
vars        == <<pc, env, settings, datasets, batch_sizes, augs, call>>

---------------------------------------------------------------------------
\* Bounds of the model.
MaxBatch   == 2     \* batch sizes are 1..MaxBatch
MaxWorkers == 1     \* num_workers is 0..MaxWorkers
MaxLen     == 3     \* provider splits hold 0..MaxLen samples

None    == <<>>
Some(v) == <<v>>
Val(o)  == o[1]

Classes  == {"NonGeoDataModule", "COWCCountingDataModule", "So2SatDataModule"}
Loaders  == {"train", "val", "test", "predict"}
\* the stage tokens of LightningDataModule.setup, and one token that is none of them
StageTokens == {"fit", "validate", "test", "predict", "tune"}

\* **kwargs: with or without a "download" key
KwargsSet == {[has_download |-> FALSE, download |-> FALSE],
              [has_download |-> TRUE,  download |-> FALSE],
              [has_download |-> TRUE,  download |-> TRUE]}

\* kwargs.get("download", False)
kwargs_get_download(kw) ==
    IF kw.has_download THEN kw.download ELSE FALSE

\* Python's `x or y` on an Optional[int]: None and 0 are falsy
or_int(x, y) ==
    IF x # None /\ Val(x) # 0 THEN Val(x) ELSE y

\* Python's `x or y` on an Optional[Module]
or_module(x, y) ==
    IF x # None THEN Val(x) ELSE y

\* range(n) as a sequence <<0, ..., n-1>>
range(n) ==
    [i \in 1..n |-> i - 1]

RECURSIVE sum(_)
sum(s) ==
    IF s = <<>> THEN 0 ELSE Head(s) + sum(Tail(s))

---------------------------------------------------------------------------
\* Collaborators: the dataset provider, the augmentation pipelines, the loader.

\* So2SatDataModule.band_means / band_stds, in units of 1e-6
band_means ==
    <<123757, 109277, 101086, 114240, 159266, 181472, 174574, 195016, 154285, 109051>>

band_stds ==
    <<39588, 47778, 66366, 63589, 77444, 91016, 92185, 101646, 99918, 87806>>

\* "this reorders the bands to put S2 RGB first, then remainder of S2"
reindex_to_rgb_first ==
    <<2, 1, 0, 3, 4, 5, 6, 7, 8, 9>>

\* So2Sat.BAND_SETS: the provider's band catalogs.  The Sentinel-2 catalog is the
\* one reindex_to_rgb_first permutes: its RGB bands first, then the remainder.
BAND_SETS ==
    [s2 |-> [i \in 1..Len(reindex_to_rgb_first) |-> i - 1]]

BandSetKeys == {"rgb", "s2"}

\* AugmentationSequential(K.Normalize(mean, std), data_keys=["image"])
AugmentationSequential(id, mean, std) ==
    [id |-> id, mean |-> mean, std |-> std]

\* a stage-specific pipeline a subclass assigns to train_aug, val_aug, ...
StageAug(S) ==
    AugmentationSequential(S \o "_aug", <<>>, <<>>)

\* len(dataset_class(split=split))
SplitLen(split) ==
    IF split = "test" THEN provider_len.test ELSE provider_len.train

\* dataset_class(split=split, bands=bands, **kwargs)
NewDataset(c, split, bands) ==
    [cls |-> c, split |-> split, bands |-> bands,
     indices |-> range(SplitLen(split)), has_plot |-> args.dataset_plot]

\* torch.utils.data.Subset(dataset, indices): no attribute of the dataset is forwarded
Subset(dataset, indices) ==
    [cls |-> "Subset", split |-> dataset.split, bands |-> dataset.bands,
     indices |-> indices, has_plot |-> FALSE]

len(dataset) ==
    Len(dataset.indices)

\* DataLoader(dataset=, batch_size=, shuffle=, num_workers=)
DataLoader(dataset, bs, shuffle, nw) ==
    [dataset |-> dataset, batch_size |-> bs, shuffle |-> shuffle, num_workers |-> nw]

\* the outcome of a call
Returned(op, arg, ret, applied) ==
    [op |-> op, arg |-> arg, raised |-> None, ret |-> ret, applied |-> applied]

Raised(op, arg, exc, applied) ==
    [op |-> op, arg |-> arg, raised |-> Some(exc), ret |-> None, applied |-> applied]

---------------------------------------------------------------------------
\* Construction.

\* What a constructor call can be given.  stage_batch_size and stage_aug are
\* what a subclass assigns to the stage-specific attributes.
NoDownload == [has_download |-> FALSE, download |-> FALSE]

DefaultArgs ==
    [batch_size |-> 1, num_workers |-> 0, kwargs |-> NoDownload,
     dataset_plot |-> TRUE, band_set |-> "rgb",
     stage_batch_size |-> [S \in Loaders |-> None],
     stage_aug |-> [S \in Loaders |-> FALSE]]

\* every constructor argument varied
PlainArgs ==
    {[DefaultArgs EXCEPT !.batch_size = bs, !.num_workers = nw, !.kwargs = kw,
                         !.dataset_plot = dp, !.band_set = b] :
        bs \in 1..MaxBatch, nw \in 0..MaxWorkers, kw \in KwargsSet,
        dp \in BOOLEAN, b \in BandSetKeys}

\* a subclass of the base that sets stage-specific batch sizes
BatchArgs ==
    {[DefaultArgs EXCEPT !.stage_batch_size = sb] :
        sb \in [Loaders -> {None} \cup {Some(n) : n \in 1..MaxBatch}]}

\* a subclass of the base that sets stage-specific pipelines
AugArgs ==
    {[DefaultArgs EXCEPT !.stage_aug = sa] : sa \in [Loaders -> BOOLEAN]}

FullSplits == [train |-> MaxLen, test |-> MaxLen]

\* the attributes of an object whose __init__ has not run
NoAttrs ==
    [dataset_class |-> None, batch_size |-> None, num_workers |-> None, kwargs |-> None,
     train_dataset |-> None, val_dataset |-> None,
     test_dataset |-> None, predict_dataset |-> None,
     train_batch_size |-> None, val_batch_size |-> None,
     test_batch_size |-> None, predict_batch_size |-> None,
     aug |-> None, train_aug |-> None, val_aug |-> None,
     test_aug |-> None, predict_aug |-> None]

\* the object's attributes become those of `self`
Assign(self) ==
    /\ dataset_class' = self.dataset_class
    /\ batch_size' = self.batch_size
    /\ num_workers' = self.num_workers
    /\ kwargs' = self.kwargs
    /\ train_dataset' = self.train_dataset
    /\ val_dataset' = self.val_dataset
    /\ test_dataset' = self.test_dataset
    /\ predict_dataset' = self.predict_dataset
    /\ train_batch_size' = self.train_batch_size
    /\ val_batch_size' = self.val_batch_size
    /\ test_batch_size' = self.test_batch_size
    /\ predict_batch_size' = self.predict_batch_size
    /\ aug' = self.aug
    /\ train_aug' = self.train_aug
    /\ val_aug' = self.val_aug
    /\ test_aug' = self.test_aug
    /\ predict_aug' = self.predict_aug

Init ==
    /\ pc = "new"
    /\ \/ /\ cls \in {"NonGeoDataModule", "So2SatDataModule"}
          /\ args \in PlainArgs
          /\ cls # "So2SatDataModule" => args.band_set = "rgb"
          /\ provider_len = FullSplits
       \/ /\ cls = "NonGeoDataModule"
          /\ args \in BatchArgs \cup AugArgs
          /\ provider_len = FullSplits
       \/ /\ cls = "COWCCountingDataModule"
          /\ args = DefaultArgs
          /\ provider_len \in [train: 0..MaxLen, test: 0..MaxLen]
    /\ dataset_class = None /\ batch_size = None /\ num_workers = None /\ kwargs = None
    /\ train_dataset = None /\ val_dataset = None
    /\ test_dataset = None /\ predict_dataset = None
    /\ train_batch_size = None /\ val_batch_size = None
    /\ test_batch_size = None /\ predict_batch_size = None
    /\ aug = None /\ train_aug = None /\ val_aug = None
    /\ test_aug = None /\ predict_aug = None
    /\ call = Returned("new", None, None, <<>>)

\* NonGeoDataModule.__init__(self, dataset_class, batch_size=1, num_workers=0, **kwargs)
\* called with the positional arguments `positional` and the keyword bag `kw`:
\* dataset_class has no default, so a call without it raises TypeError before
\* the body runs.
NonGeoDataModule_init(positional, kw) ==
    IF Len(positional) < 1
    THEN [raised |-> Some("TypeError"), self |-> NoAttrs]
    ELSE [raised |-> None,
          self |-> [NoAttrs EXCEPT
              !.dataset_class = Some(positional[1]),
              !.batch_size = Some(IF Len(positional) >= 2 THEN positional[2] ELSE 1),
              !.num_workers = Some(IF Len(positional) >= 3 THEN positional[3] ELSE 0),
              !.kwargs = Some(kw),
              !.aug = Some(AugmentationSequential("aug", <<0>>, <<255>>))]]

\* A subclass assigns its stage-specific batch sizes and pipelines after
\* super().__init__ has declared them, as COWCCountingDataModule does for aug.
Configured(self, a) ==
    [self EXCEPT
        !.train_batch_size = a.stage_batch_size["train"],
        !.val_batch_size = a.stage_batch_size["val"],
        !.test_batch_size = a.stage_batch_size["test"],
        !.predict_batch_size = a.stage_batch_size["predict"],
        !.train_aug = IF a.stage_aug["train"] THEN Some(StageAug("train")) ELSE None,
        !.val_aug = IF a.stage_aug["val"] THEN Some(StageAug("val")) ELSE None,
        !.test_aug = IF a.stage_aug["test"] THEN Some(StageAug("test")) ELSE None,
        !.predict_aug = IF a.stage_aug["predict"] THEN Some(StageAug("predict")) ELSE None]

\* COWCCountingDataModule.__init__(self, batch_size=64, num_workers=0, **kwargs)
COWCCountingDataModule_init(a) ==
    LET base == NonGeoDataModule_init(<<"COWCCounting", a.batch_size, a.num_workers>>, a.kwargs)
    IN  IF base.raised # None THEN base
        ELSE [base EXCEPT
                 !.self.aug = Some(AugmentationSequential("aug", <<0>>, <<255>>))]

\* So2SatDataModule.__init__(self, batch_size=64, num_workers=0, band_set="rgb",
\*                           unsupervised_mode=False, **kwargs)
\* Its first statement is super().__init__() with no argument at all.
So2SatDataModule_init(a) ==
    LET base == NonGeoDataModule_init(<<>>, [has_download |-> FALSE, download |-> FALSE])
    IN  IF base.raised # None THEN base
        ELSE [base EXCEPT
                 !.self.batch_size = Some(a.batch_size),
                 !.self.num_workers = Some(a.num_workers),
                 !.self.kwargs = Some(a.kwargs),
                 !.self.aug = Some(AugmentationSequential("aug", band_means, band_stds))]

\* cls(...): the constructor of the class being instantiated
Construct(a) ==
    CASE cls = "NonGeoDataModule" ->
            LET base == NonGeoDataModule_init(
                            <<"NonGeoDataset", a.batch_size, a.num_workers>>, a.kwargs)
            IN  IF base.raised # None THEN base
                ELSE [base EXCEPT !.self = Configured(base.self, a)]
      [] cls = "COWCCountingDataModule" -> COWCCountingDataModule_init(a)
      [] cls = "So2SatDataModule" -> So2SatDataModule_init(a)

\* __init__: an exception leaves no object behind
init ==
    /\ pc = "new"
    /\ LET made == Construct(args)
       IN  /\ Assign(made.self)
           /\ pc' = IF made.raised = None THEN "ready" ELSE "failed"
           /\ call' = [op |-> "__init__", arg |-> None, raised |-> made.raised,
                       ret |-> None, applied |-> <<>>]
    /\ UNCHANGED env

---------------------------------------------------------------------------
\* setup

\* Faulty variant of NonGeoDataModule_setup: three independent ifs, so "fit" also
\* populates val_dataset.
NonGeoDataModule_setup_independent_ifs(stage) ==
    [raised |-> None,
     train_dataset |-> IF stage \in {"fit"}
                       THEN Some(NewDataset(Val(dataset_class), "train", None))
                       ELSE train_dataset,
     val_dataset |-> IF stage \in {"fit", "validate"}
                     THEN Some(NewDataset(Val(dataset_class), "val", None))
                     ELSE val_dataset,
     test_dataset |-> IF stage \in {"test"}
                      THEN Some(NewDataset(Val(dataset_class), "test", None))
                      ELSE test_dataset,
     predict_dataset |-> predict_dataset]

\* NonGeoDataModule.setup(stage): an if / elif / elif chain
NonGeoDataModule_setup(stage) ==
    LET cur == [raised |-> None,
                train_dataset |-> train_dataset, val_dataset |-> val_dataset,
                test_dataset |-> test_dataset, predict_dataset |-> predict_dataset]
    IN  IF stage \in {"fit"}
        THEN [cur EXCEPT !.train_dataset =
                  Some(NewDataset(Val(dataset_class), "train", None))]
        ELSE IF stage \in {"fit", "validate"}
        THEN [cur EXCEPT !.val_dataset =
                  Some(NewDataset(Val(dataset_class), "val", None))]
        ELSE IF stage \in {"test"}
        THEN [cur EXCEPT !.test_dataset =
                  Some(NewDataset(Val(dataset_class), "test", None))]
        ELSE cur

\* Python's seq[a:b]
PySlice(seq, a, b) ==
    LET n == Len(seq)
        lo == IF a < 0 THEN (IF a + n < 0 THEN 0 ELSE a + n) ELSE (IF a > n THEN n ELSE a)
        hi == IF b < 0 THEN (IF b + n < 0 THEN 0 ELSE b + n) ELSE (IF b > n THEN n ELSE b)
    IN  IF lo < hi THEN SubSeq(seq, lo + 1, hi) ELSE <<>>

\* the orderings of 0..n-1, for every n a provider split can have
PermTable ==
    [n \in 0..MaxLen |->
        {p \in [1..n -> 0..(n - 1)] : \A i, j \in 1..n : p[i] = p[j] => i = j}]

\* torch.randperm(n): what it can return
Perms(n) ==
    PermTable[n]

\* torch.utils.data.random_split(dataset, [l1, l2]) drawing the permutation perm.
\* A torch that accepts fractions (`fractions`) reads lengths that sum to 1 as
\* fractions and rejects one outside [0, 1]; lengths whose sum is not len(dataset)
\* are rejected; the folds are the slices indices[offset - length : offset].
random_split(dataset, lengths, perm, fractions) ==
    LET asfrac == fractions /\ sum(lengths) = 1
        badfrac == \E i \in 1..Len(lengths) : lengths[i] < 0 \/ lengths[i] > 1
        ls == IF asfrac THEN [i \in 1..Len(lengths) |-> len(dataset) * lengths[i]]
              ELSE lengths
        fold(offset, length) ==
            LET picked == PySlice(perm, offset - length, offset)
            IN  Subset(dataset, [i \in 1..Len(picked) |-> dataset.indices[picked[i] + 1]])
    IN  IF asfrac /\ badfrac THEN [raised |-> Some("ValueError"), ret |-> <<>>]
        ELSE IF sum(ls) # len(dataset) THEN [raised |-> Some("ValueError"), ret |-> <<>>]
        ELSE [raised |-> None,
              ret |-> <<fold(ls[1], ls[1]), fold(ls[1] + ls[2], ls[2])>>]

\* Faulty variant of COWCCountingDataModule_setup: the two fold sizes are swapped.
COWCCountingDataModule_setup_swapped(stage, perm, fractions) ==
    LET train_val_dataset == NewDataset("COWCCounting", "train", None)
        test == NewDataset("COWCCounting", "test", None)
        rs == random_split(train_val_dataset,
                           <<len(test), len(train_val_dataset) - len(test)>>,
                           perm, fractions)
    IN  IF rs.raised # None
        THEN [raised |-> rs.raised,
              train_dataset |-> train_dataset, val_dataset |-> val_dataset,
              test_dataset |-> Some(test), predict_dataset |-> predict_dataset]
        ELSE [raised |-> None,
              train_dataset |-> Some(rs.ret[1]), val_dataset |-> Some(rs.ret[2]),
              test_dataset |-> Some(test), predict_dataset |-> predict_dataset]

\* COWCCountingDataModule.setup(stage): test_dataset is assigned before the split
COWCCountingDataModule_setup(stage, perm, fractions) ==
    LET train_val_dataset == NewDataset("COWCCounting", "train", None)
        test == NewDataset("COWCCounting", "test", None)
        rs == random_split(train_val_dataset,
                           <<len(train_val_dataset) - len(test), len(test)>>,
                           perm, fractions)
    IN  IF rs.raised # None
        THEN [raised |-> rs.raised,
              train_dataset |-> train_dataset, val_dataset |-> val_dataset,
              test_dataset |-> Some(test), predict_dataset |-> predict_dataset]
        ELSE [raised |-> None,
              train_dataset |-> Some(rs.ret[1]), val_dataset |-> Some(rs.ret[2]),
              test_dataset |-> Some(test), predict_dataset |-> predict_dataset]

\* So2SatDataModule.setup(stage)
So2SatDataModule_setup(stage) ==
    LET bands == BAND_SETS["s2"]
    IN  [raised |-> None,
         train_dataset |-> Some(NewDataset("So2Sat", "train", bands)),
         val_dataset |-> Some(NewDataset("So2Sat", "validation", bands)),
         test_dataset |-> Some(NewDataset("So2Sat", "test", bands)),
         predict_dataset |-> predict_dataset]

\* the draws a setup call makes: only the counting datamodule splits at random
SetupPerms ==
    IF cls = "COWCCountingDataModule" THEN Perms(provider_len.train) ELSE {<<>>}

SetupTorch ==
    IF cls = "COWCCountingDataModule" THEN BOOLEAN ELSE {FALSE}

\* self.setup(stage), dispatched on the object's class
Setup(stage, perm, fractions) ==
    CASE cls = "NonGeoDataModule" -> NonGeoDataModule_setup(stage)
      [] cls = "COWCCountingDataModule" ->
             COWCCountingDataModule_setup(stage, perm, fractions)
      [] cls = "So2SatDataModule" -> So2SatDataModule_setup(stage)

setup(stage) ==
    /\ pc = "ready"
    /\ \E perm \in SetupPerms, fractions \in SetupTorch :
        \E r \in {Setup(stage, perm, fractions)} :
            /\ train_dataset' = r.train_dataset
            /\ val_dataset' = r.val_dataset
            /\ test_dataset' = r.test_dataset
            /\ predict_dataset' = r.predict_dataset
            /\ call' = [op |-> "setup", arg |-> stage, raised |-> r.raised,
                        ret |-> None, applied |-> <<>>]
    /\ UNCHANGED <<pc, env, settings, batch_sizes, augs>>

---------------------------------------------------------------------------
\* prepare_data and the loaders

\* Faulty variant of prepare_data: the dataset it constructs is kept as train_dataset.
prepare_data_keeps_dataset ==
    /\ pc = "ready"
    /\ call' = Returned("prepare_data", None, None,
                        IF kwargs_get_download(Val(kwargs))
                        THEN <<"dataset_class">> ELSE <<>>)
    /\ train_dataset' = IF kwargs_get_download(Val(kwargs))
                        THEN Some(NewDataset(Val(dataset_class), "train", None))
                        ELSE train_dataset
    /\ UNCHANGED <<pc, env, settings, val_dataset, test_dataset, predict_dataset,
                   batch_sizes, augs>>

\* NonGeoDataModule.prepare_data: the dataset it may construct is discarded
prepare_data ==
    /\ pc = "ready"
    /\ call' = Returned("prepare_data", None, None,
                        IF kwargs_get_download(Val(kwargs))
                        THEN <<"dataset_class">> ELSE <<>>)
    /\ UNCHANGED <<pc, env, settings, datasets, batch_sizes, augs>>

train_dataloader_result ==
    IF train_dataset # None
    THEN Returned("train_dataloader", None,
                  Some(DataLoader(Val(train_dataset),
                                  or_int(train_batch_size, Val(batch_size)),
                                  TRUE, Val(num_workers))), <<>>)
    ELSE Raised("train_dataloader", None, "MisconfigurationException", <<>>)

\* Faulty variant of val_dataloader_result: no check that val_dataset is set.
val_dataloader_unchecked ==
    Returned("val_dataloader", None,
             IF val_dataset # None
             THEN Some(DataLoader(Val(val_dataset),
                                  or_int(val_batch_size, Val(batch_size)),
                                  FALSE, Val(num_workers)))
             ELSE None, <<>>)

val_dataloader_result ==
    IF val_dataset # None
    THEN Returned("val_dataloader", None,
                  Some(DataLoader(Val(val_dataset),
                                  or_int(val_batch_size, Val(batch_size)),
                                  FALSE, Val(num_workers))), <<>>)
    ELSE Raised("val_dataloader", None, "MisconfigurationException", <<>>)

\* Faulty variant of test_dataloader_result: copied from train_dataloader with its
\* batch size and shuffle left as they were.
test_dataloader_copied ==
    IF test_dataset # None
    THEN Returned("test_dataloader", None,
                  Some(DataLoader(Val(test_dataset),
                                  or_int(train_batch_size, Val(batch_size)),
                                  TRUE, Val(num_workers))), <<>>)
    ELSE Raised("test_dataloader", None, "MisconfigurationException", <<>>)

test_dataloader_result ==
    IF test_dataset # None
    THEN Returned("test_dataloader", None,
                  Some(DataLoader(Val(test_dataset),
                                  or_int(test_batch_size, Val(batch_size)),
                                  FALSE, Val(num_workers))), <<>>)
    ELSE Raised("test_dataloader", None, "MisconfigurationException", <<>>)

predict_dataloader_result ==
    IF predict_dataset # None
    THEN Returned("predict_dataloader", None,
                  Some(DataLoader(Val(predict_dataset),
                                  or_int(predict_batch_size, Val(batch_size)),
                                  FALSE, Val(num_workers))), <<>>)
    ELSE Raised("predict_dataloader", None, "MisconfigurationException", <<>>)

train_dataloader ==
    /\ pc = "ready"
    /\ call' = train_dataloader_result
    /\ UNCHANGED <<pc, env, settings, datasets, batch_sizes, augs>>

val_dataloader ==
    /\ pc = "ready"
    /\ call' = val_dataloader_result
    /\ UNCHANGED <<pc, env, settings, datasets, batch_sizes, augs>>

test_dataloader ==
    /\ pc = "ready"
    /\ call' = test_dataloader_result
    /\ UNCHANGED <<pc, env, settings, datasets, batch_sizes, augs>>

predict_dataloader ==
    /\ pc = "ready"
    /\ call' = predict_dataloader_result
    /\ UNCHANGED <<pc, env, settings, datasets, batch_sizes, augs>>

---------------------------------------------------------------------------
\* on_after_batch_transfer and plot

\* self.trainer: not attached, or a trainer with its four phase flags
Trainers ==
    {None} \cup {Some(t) : t \in [training: BOOLEAN, validating: BOOLEAN,
                                   testing: BOOLEAN, predicting: BOOLEAN]}

Batches == {"batch"}

\* Faulty variant of select_aug: the validating branch reads train_aug.
select_aug_wrong_stage(t) ==
    IF t.training THEN Some(or_module(train_aug, Val(aug)))
    ELSE IF t.validating THEN Some(or_module(train_aug, Val(aug)))
    ELSE IF t.testing THEN Some(or_module(test_aug, Val(aug)))
    ELSE IF t.predicting THEN Some(or_module(predict_aug, Val(aug)))
    ELSE None

\* the if / elif chain that binds the local `aug`; None when no branch binds it
select_aug(t) ==
    IF t.training THEN Some(or_module(train_aug, Val(aug)))
    ELSE IF t.validating THEN Some(or_module(val_aug, Val(aug)))
    ELSE IF t.testing THEN Some(or_module(test_aug, Val(aug)))
    ELSE IF t.predicting THEN Some(or_module(predict_aug, Val(aug)))
    ELSE None

on_after_batch_transfer_result(trainer, batch) ==
    LET arg == [trainer |-> trainer, batch |-> batch]
    IN  IF trainer # None
        THEN LET chosen == select_aug(Val(trainer))
             IN  IF chosen = None
                 THEN Raised("on_after_batch_transfer", arg, "UnboundLocalError", <<>>)
                 ELSE Returned("on_after_batch_transfer", arg,
                               Some([aug |-> Val(chosen).id, batch |-> batch]),
                               <<Val(chosen).id>>)
        ELSE Returned("on_after_batch_transfer", arg, Some(batch), <<>>)

on_after_batch_transfer ==
    /\ pc = "ready"
    /\ \E trainer \in Trainers, batch \in Batches :
           call' = on_after_batch_transfer_result(trainer, batch)
    /\ UNCHANGED <<pc, env, settings, datasets, batch_sizes, augs>>

\* the arguments a plot call is given
PlotArgs == {<<>>, <<"sample">>}

\* Faulty variant of plot_result: no hasattr check, so a dataset without plot raises.
plot_no_hasattr(pargs) ==
    IF val_dataset # None
    THEN IF Val(val_dataset).has_plot
         THEN Returned("plot", pargs,
                       Some([plot_of |-> Val(val_dataset), args |-> pargs]),
                       <<"val_dataset.plot">>)
         ELSE Raised("plot", pargs, "AttributeError", <<>>)
    ELSE Returned("plot", pargs, None, <<>>)

\* NonGeoDataModule.plot(*args, **kwargs): falls off the end (returns None) unless
\* val_dataset is set and has a plot attribute
plot_result(pargs) ==
    IF val_dataset # None
    THEN IF Val(val_dataset).has_plot
         THEN Returned("plot", pargs,
                       Some([plot_of |-> Val(val_dataset), args |-> pargs]),
                       <<"val_dataset.plot">>)
         ELSE Returned("plot", pargs, None, <<>>)
    ELSE Returned("plot", pargs, None, <<>>)

plot ==
    /\ pc = "ready"
    /\ \E pargs \in PlotArgs : call' = plot_result(pargs)
    /\ UNCHANGED <<pc, env, settings, datasets, batch_sizes, augs>>

---------------------------------------------------------------------------
Next ==
    \/ init
    \/ \E stage \in StageTokens : setup(stage)
    \/ prepare_data
    \/ train_dataloader
    \/ val_dataloader
    \/ test_dataloader
    \/ predict_dataloader
    \/ on_after_batch_transfer
    \/ plot

Spec == Init /\ [][Next]_vars

---------------------------------------------------------------------------
\* Reading the object by stage name.

Dataset(S) ==
    CASE S = "train" -> train_dataset [] S = "val" -> val_dataset
      [] S = "test" -> test_dataset [] S = "predict" -> predict_dataset

BatchSizeOf(S) ==
    CASE S = "train" -> train_batch_size [] S = "val" -> val_batch_size
      [] S = "test" -> test_batch_size [] S = "predict" -> predict_batch_size

AugOf(S) ==
    CASE S = "train" -> train_aug [] S = "val" -> val_aug
      [] S = "test" -> test_aug [] S = "predict" -> predict_aug

LoaderResult(S) ==
    CASE S = "train" -> train_dataloader_result [] S = "val" -> val_dataloader_result
      [] S = "test" -> test_dataloader_result [] S = "predict" -> predict_dataloader_result

LoaderOp(S) == S \o "_dataloader"

\* the stage token that goes with a loader
Token(S) ==
    CASE S = "train" -> "fit" [] S = "val" -> "validate"
      [] S = "test" -> "test" [] S = "predict" -> "predict"

\* the trainer phase that goes with a stage
Phase(S) ==
    [training |-> S = "train", validating |-> S = "val",
     testing |-> S = "test", predicting |-> S = "predict"]

Misconfigured(c) ==
    c.raised = Some("MisconfigurationException") /\ c.ret = None

IsBase == cls = "NonGeoDataModule"

---------------------------------------------------------------------------
\* C1 (as stated): in the base datamodule, for every S in {train, val, test,
\* predict}, S_dataloader called while the S dataset is unset raises
\* MisconfigurationException and returns no loader, and once setup has returned
\* for the stage token of S, S_dataloader succeeds with a loader over the S dataset.
C1_AsStated ==
    IsBase =>
        \A S \in Loaders :
            /\ (call.op = LoaderOp(S) /\ Dataset(S) = None) => Misconfigured(call)
            /\ (call.op = "setup" /\ call.arg = Token(S)) =>
                   /\ Dataset(S) # None
                   /\ LoaderResult(S).raised = None
                   /\ LoaderResult(S).ret # None
                   /\ Val(LoaderResult(S).ret).dataset = Val(Dataset(S))

\* C1 (amended): the first half holds for all four loaders; the second half holds
\* for train, val and test.  setup("predict") populates nothing, so in the base
\* datamodule predict_dataloader raises MisconfigurationException before and after it.
C1_Loaders ==
    IsBase =>
        \A S \in Loaders :
            /\ (call.op = LoaderOp(S) /\ Dataset(S) = None) => Misconfigured(call)
            /\ (call.op = LoaderOp(S) /\ Dataset(S) # None) =>
                   /\ call.raised = None
                   /\ call.ret # None
                   /\ Val(call.ret).dataset = Val(Dataset(S))
            /\ (S # "predict" /\ call.op = "setup" /\ call.arg = Token(S)) =>
                   /\ Dataset(S) # None
                   /\ LoaderResult(S).raised = None
                   /\ LoaderResult(S).ret # None
                   /\ Val(LoaderResult(S).ret).dataset = Val(Dataset(S))
            /\ S = "predict" =>
                   /\ Dataset(S) = None
                   /\ pc = "ready" => Misconfigured(LoaderResult(S))

\* val_dataloader has succeeded (so setup("validate") ran) while train_dataset is unset
C1_Witness ==
    /\ IsBase
    /\ call.op = "val_dataloader" /\ call.raised = None
    /\ train_dataset = None

\* predict_dataloader has raised in a module that went through setup
C1_WitnessPredict ==
    /\ IsBase
    /\ call.op = "predict_dataloader" /\ Misconfigured(call)
    /\ test_dataset # None

---------------------------------------------------------------------------
\* C2: in the base datamodule a setup(stage) step changes only the dataset of that
\* stage: "fit" sets train_dataset (split "train") and not val_dataset, "validate"
\* sets val_dataset (split "val"), "test" sets test_dataset (split "test"), any
\* other token, "predict" included, changes no dataset; so after setup("fit") on a
\* module whose val_dataset is unset, val_dataloader still raises.
C2_SetupFrame ==
    [][ (IsBase /\ call'.op = "setup") =>
          /\ call'.arg = "fit" =>
                /\ train_dataset' # None
                /\ Val(train_dataset').split = "train"
                /\ UNCHANGED <<val_dataset, test_dataset, predict_dataset>>
                /\ val_dataset = None => Misconfigured(val_dataloader_result')
          /\ call'.arg = "validate" =>
                /\ val_dataset' # None
                /\ Val(val_dataset').split = "val"
                /\ UNCHANGED <<train_dataset, test_dataset, predict_dataset>>
          /\ call'.arg = "test" =>
                /\ test_dataset' # None
                /\ Val(test_dataset').split = "test"
                /\ UNCHANGED <<train_dataset, val_dataset, predict_dataset>>
          /\ call'.arg \notin {"fit", "validate", "test"} =>
                UNCHANGED datasets
      ]_vars

\* setup("fit") has returned on a module that has a train but no val dataset
C2_Witness ==
    /\ IsBase
    /\ call.op = "setup" /\ call.arg = "fit"
    /\ train_dataset # None /\ val_dataset = None

---------------------------------------------------------------------------
\* C3: with a trainer attached and exactly one phase P active,
\* on_after_batch_transfer applies exactly one pipeline and returns its result:
\* P's own pipeline if it is set, else the default aug; never another phase's.
C3_Dispatch ==
    \A S \in Loaders :
        (/\ call.op = "on_after_batch_transfer"
         /\ call.arg.trainer = Some(Phase(S))) =>
            LET expected == IF AugOf(S) # None THEN Val(AugOf(S)) ELSE Val(aug)
            IN  /\ call.raised = None
                /\ call.applied = <<expected.id>>
                /\ call.ret = Some([aug |-> expected.id, batch |-> call.arg.batch])

\* validating, val_aug unset, train_aug and test_aug set: the default aug was applied
C3_Witness ==
    /\ call.op = "on_after_batch_transfer"
    /\ call.arg.trainer = Some(Phase("val"))
    /\ val_aug = None /\ train_aug # None /\ test_aug # None
    /\ call.applied = <<"aug">>

---------------------------------------------------------------------------
\* what C4 says of the two folds
FoldsPartition ==
    /\ train_dataset # None /\ val_dataset # None /\ test_dataset # None
    /\ len(Val(train_dataset)) + len(Val(val_dataset)) = provider_len.train
    /\ len(Val(val_dataset)) = len(Val(test_dataset))
    /\ len(Val(test_dataset)) = provider_len.test
    /\ LET both == Val(train_dataset).indices \o Val(val_dataset).indices
       IN  \A k \in 0..(provider_len.train - 1) :
               Cardinality({i \in 1..Len(both) : both[i] = k}) = 1

\* C4 (as stated): in the counting datamodule, after setup with any stage token,
\* len(train) + len(val) = len(provider "train"), len(val) = len(test) =
\* len(provider "test"), and the two folds are disjoint and cover every index of
\* the provider's "train" split once, for every pair of split sizes.
C4_AsStated ==
    (cls = "COWCCountingDataModule" /\ call.op = "setup") => FoldsPartition

\* C4 (amended): the same, for every pair of split sizes in which the "test" split
\* is no larger than the "train" split; setup then returns normally.
C4_Folds ==
    (/\ cls = "COWCCountingDataModule" /\ call.op = "setup"
     /\ provider_len.test <= provider_len.train) =>
        call.raised = None /\ FoldsPartition

\* a split with two non-empty folds
C4_Witness ==
    /\ cls = "COWCCountingDataModule" /\ call.op = "setup" /\ call.raised = None
    /\ provider_len.test >= 1 /\ provider_len.test < provider_len.train
    /\ train_dataset # None /\ len(Val(train_dataset)) >= 1

---------------------------------------------------------------------------
\* C5: every loader built shuffles iff it is the train loader, uses the stage's
\* own batch size when that is set and batch_size otherwise, and forwards
\* num_workers unchanged.
C5_LoaderArgs ==
    \A S \in Loaders :
        (call.op = LoaderOp(S) /\ call.raised = None) =>
            /\ call.ret # None
            /\ Val(call.ret).shuffle = (S = "train")
            /\ Val(call.ret).batch_size =
                   IF BatchSizeOf(S) # None THEN Val(BatchSizeOf(S)) ELSE Val(batch_size)
            /\ Val(call.ret).num_workers = Val(num_workers)

\* a test loader built with its own batch size, which differs from batch_size and
\* from train_batch_size
C5_Witness ==
    /\ call.op = "test_dataloader" /\ call.raised = None
    /\ test_batch_size # None /\ test_batch_size # batch_size
    /\ train_batch_size # test_batch_size

---------------------------------------------------------------------------
\* C6: plot raises nothing of its own and reads only val_dataset: with val_dataset
\* set and exposing plot it forwards its arguments to val_dataset.plot and returns
\* that result; otherwise it returns None, whatever the other datasets are.
C6_Plot ==
    call.op = "plot" =>
        /\ call.raised = None
        /\ IF val_dataset # None /\ Val(val_dataset).has_plot
           THEN /\ call.applied = <<"val_dataset.plot">>
                /\ call.ret = Some([plot_of |-> Val(val_dataset), args |-> call.arg])
           ELSE /\ call.applied = <<>>
                /\ call.ret = None

\* plot returned None on a val_dataset without plot
C6_Witness ==
    /\ call.op = "plot" /\ call.ret = None /\ call.raised = None
    /\ val_dataset # None /\ ~Val(val_dataset).has_plot

---------------------------------------------------------------------------
\* C8: only setup changes the datamodule: a step of prepare_data, of a loader
\* accessor, of on_after_batch_transfer or of plot leaves the four datasets, the
\* four stage batch sizes, aug and the four stage pipelines unchanged; and no step
\* at all unsets a dataset that is set.
C8_OnlySetupWrites ==
    [][ /\ call'.op \in {"prepare_data", "train_dataloader", "val_dataloader",
                         "test_dataloader", "predict_dataloader",
                         "on_after_batch_transfer", "plot"} =>
               UNCHANGED <<datasets, batch_sizes, augs>>
        /\ \A S \in Loaders : Dataset(S) # None => Dataset(S)' # None
      ]_vars

\* prepare_data constructed a dataset (download set) on a module that has datasets
C8_Witness ==
    /\ call.op = "prepare_data" /\ call.applied = <<"dataset_class">>
    /\ val_dataset # None /\ train_dataset = None

---------------------------------------------------------------------------
\* C7: a So2SatDataModule constructed with band_set = "s2" holds a default aug
\* whose mean and std vectors each have one entry per band of the provider's "s2"
\* catalog, and its setup builds the train, val and test datasets with exactly
\* that catalog.
C7_S2Bands ==
    (cls = "So2SatDataModule" /\ args.band_set = "s2" /\ pc # "new") =>
        /\ pc = "ready"
        /\ aug # None
        /\ Len(Val(aug).mean) = Len(BAND_SETS["s2"])
        /\ Len(Val(aug).std) = Len(BAND_SETS["s2"])
        /\ call.op = "setup" =>
               \A S \in {"train", "val", "test"} :
                   Dataset(S) # None /\ Val(Dataset(S)).bands = BAND_SETS["s2"]

---------------------------------------------------------------------------
\* C9: on_after_batch_transfer is total over trainer states: without a trainer it
\* returns the batch unchanged and applies nothing; with a trainer, whatever its
\* four flags are (all false included), it applies exactly one pipeline and
\* does not fail.
C9_Total ==
    call.op = "on_after_batch_transfer" =>
        IF call.arg.trainer = None
        THEN /\ call.raised = None
             /\ call.applied = <<>>
             /\ call.ret = Some(call.arg.batch)
        ELSE /\ call.raised = None
             /\ Len(call.applied) = 1

---------------------------------------------------------------------------
\* C10: constructing a So2SatDataModule or a COWCCountingDataModule completes and
\* leaves the datasets, stage batch sizes and stage pipelines as the base
\* constructor sets them; after one setup with any stage token the train, val and
\* test datasets are populated (So2Sat's from the "train", "validation" and "test"
\* splits) and the three loaders succeed.
C10_ConstructThenSetup ==
    cls \in {"So2SatDataModule", "COWCCountingDataModule"} =>
        /\ pc # "new" => pc = "ready"
        /\ call.op = "__init__" =>
               /\ call.raised = None
               /\ aug # None
               /\ \A S \in Loaders :
                      Dataset(S) = None /\ BatchSizeOf(S) = None /\ AugOf(S) = None
        /\ call.op = "setup" =>
               /\ call.raised = None
               /\ \A S \in {"train", "val", "test"} :
                      /\ Dataset(S) # None
                      /\ LoaderResult(S).raised = None
               /\ cls = "So2SatDataModule" =>
                      /\ Val(train_dataset).split = "train"
                      /\ Val(val_dataset).split = "validation"
                      /\ Val(test_dataset).split = "test"

====
